---- MODULE Spec2Model ----
(***************************************************************************)
(* Verification model of the effect-driven runtime (src/src/core.ts,       *)
(* ClientProgram / Effect.map), of the breed classifier and the remote     *)
(* calls (src/src/core.ts, class Aviary) and of the application            *)
(* (src/unnamed/part_000).                                                 *)
(*                                                                         *)
(* Six specifications share the variables below:                           *)
(*   SpecProgram  - ClientProgram: constructor, dispatch, subscribe,       *)
(*                  unsubscribe tokens, executeEffects, with the call      *)
(*                  stack made explicit so that reentrant calls are        *)
(*                  modelled as the code runs them;                        *)
(*   SpecMap      - Effect.map applied to an inner effect;                 *)
(*   SpecClassify - Aviary.classify / classifySingle / classifyFragment on *)
(*                  bounded inputs;                                        *)
(*   SpecNet      - Aviary.init and Aviary.search: the request, and the    *)
(*                  response decoded by dogApiDecoder;                     *)
(*   SpecApp      - the actions, updates and effects of the application,   *)
(*                  with its asynchronous effects interleaved;             *)
(*   SpecAppLive  - SpecApp with every started effect completing.          *)
(***************************************************************************)
EXTENDS Integers, Sequences, FiniteSets, TLC

VARIABLES
    state,          \* ClientProgram.state: reference of the stored state
    subscribers,    \* ClientProgram.subscribers: array of registrations
    tokens,         \* unsubscribe closures returned by subscribe so far
    stack,          \* call stack of the single JavaScript thread
    calls,          \* number of calls of dispatch, subscribe and tokens so far
    accepted,       \* history: result of the last transition that changed state
    removed,        \* history: the token calls so far and what each removed
    tally,          \* history: state changes and invocations of each
                    \*          registration since the subscribers were set
    mapSent, mapFn, mapPc, mapOut, mapRuns,        \* Effect.map run
    breeds, input, result, cpc,                    \* Aviary.classify run
    call, requests, response, outcome,             \* Aviary.init / Aviary.search run
    app,            \* the application: the State stored by the program
    running,        \* the application: effects started and not yet ended
    drops,          \* the application: DropPicture actions dispatched so far
    last,           \* history: what the last step of the application did
    resultOf,       \* history: the picture sameBreedDogs was computed for
    delivered,      \* history: pictures whose own result has been stored
    joined          \* history: Classify effects started since the picture
                    \*          in the state was read

vars == <<state, subscribers, tokens, stack, calls, accepted, removed, tally,
          mapSent, mapFn, mapPc, mapOut, mapRuns, breeds, input, result, cpc,
          call, requests, response, outcome,
          app, running, drops, last, resultOf, delivered, joined>>

progVars == <<state, subscribers, tokens, stack, calls, accepted, removed, tally>>
mapVars  == <<mapSent, mapFn, mapPc, mapOut, mapRuns>>
clsVars  == <<breeds, input, result, cpc>>
netVars  == <<call, requests, response, outcome>>
appVars  == <<app, running, drops, last, resultOf, delivered, joined>>

(***************************************************************************)
(* Bounds of the model.                                                    *)
(***************************************************************************)
MaxCalls == 5    \* calls of dispatch, subscribe and tokens in one behaviour
MaxInner == 3    \* dispatches made by the effect wrapped by Effect.map
MaxPieces == 5   \* pieces a single classifier label is put together from
MaxList == 3     \* classifications in a list handed to classify

(***************************************************************************)
(* Small value sets the inputs are drawn from.                             *)
(***************************************************************************)
StateRefs  == {0, 1}             \* references of state objects
Listeners  == {"f", "g"}         \* identities of subscriber functions

\* The effect lists update and init may return: the k-th closure of a list is
\* identified by k.
EffectLists == {<<>>, <<1, 2>>}

Range(s) == {s[k] : k \in 1..Len(s)}

Count(s, x) == Cardinality({k \in 1..Len(s) : s[k] = x})

(***************************************************************************)
(* Call stack.  Every frame has the same shape:                            *)
(*   kind    "ctor" | "dispatch" | "effect" | "listener"                   *)
(*   noop    dispatch: update returned the stored state itself             *)
(*   arg     dispatch: the state handed to update                          *)
(*   next    dispatch: the state update returned                           *)
(*   prev    dispatch: result of the last accepted transition at the call *)
(*   effects ctor/dispatch: the effect list being executed                 *)
(*   pc      ctor/dispatch: "effects" | "notify"                           *)
(*   i       index of the next effect to execute (1-based)                 *)
(*   j       index of the next subscriber to invoke (1-based)              *)
(*   start   dispatch: registrations present when the round began          *)
(*   added   dispatch: registrations pushed while the round was running    *)
(*   gone    dispatch: registrations spliced while the round was running   *)
(*   scen    dispatch: functions that, when the round began, had been      *)
(*           subscribed twice and had one token called once                *)
(*   trace   ctor/dispatch: what this call did itself, in order            *)
(*   who     effect: effect id; listener: registration number              *)
(***************************************************************************)
NoFrame ==
    [kind |-> "none", noop |-> FALSE, arg |-> 0, next |-> 0, prev |-> 0,
     effects |-> <<>>,
     pc |-> "none", i |-> 0, j |-> 0, start |-> <<>>,
     added |-> {}, gone |-> {}, scen |-> {}, trace |-> <<>>, who |-> 0,
     nested |-> FALSE]

Top == stack[Len(stack)]

Pop == SubSeq(stack, 1, Len(stack) - 1)

ReplaceTop(f) == [stack EXCEPT ![Len(stack)] = f]

Ev(what, id) == [ev |-> what, id |-> id]

\* getState(), core.ts:61-63: the stored state is returned, nothing is
\* assigned.
getState == state

\* The counts kept for a set of subscribers: `clean` when the set was put
\* together by the host between calls, so that every notification round
\* counted runs over this set from its start to its end.
NoTally(n, clean) ==
    [clean |-> clean, changes |-> 0, invoked |-> [k \in 1..n |-> 0]]

\* A call marks every call it runs inside of.
Mark(frames) == [k \in 1..Len(frames) |-> [frames[k] EXCEPT !.nested = TRUE]]

(***************************************************************************)
(* Program.run / ClientProgram.constructor: the initial state is stored    *)
(* and executeEffects(initialEffects) is entered (core.ts:38-58).          *)
(***************************************************************************)
\* The variables of the other specifications stay idle.
IdleMap ==
    /\ mapSent = <<>> /\ mapFn = "none" /\ mapPc = "off" /\ mapOut = <<>> /\ mapRuns = 0

IdleClassify ==
    /\ breeds = <<>> /\ input = <<>> /\ result = <<>> /\ cpc = "off"

IdleNet ==
    /\ call = [op |-> "none", probe |-> <<>>]
    /\ requests = <<>>
    /\ response = <<>>
    /\ outcome = [pc |-> "off", dispatched |-> 0, result |-> <<>>]

IdleApp ==
    /\ app = <<>> /\ running = <<>> /\ drops = 0
    /\ last = <<>> /\ resultOf = 0 /\ delivered = {} /\ joined = 0

InitProgram ==
    /\ IdleMap
    /\ IdleClassify
    /\ IdleNet
    /\ IdleApp
    /\ state = 0
    /\ subscribers = <<>>
    /\ tokens = <<>>
    /\ \E effs \in EffectLists :
         stack = << [NoFrame EXCEPT !.kind = "ctor", !.noop = TRUE, !.arg = state,
                                    !.next = state, !.effects = effs,
                                    !.pc = "effects", !.i = 1] >>
    /\ calls = 0
    /\ accepted = state
    /\ removed = <<>>
    /\ tally = NoTally(0, TRUE)

(***************************************************************************)
(* dispatch(action), core.ts:41-50.  update(action, this.state) is called  *)
(* and its result compared with the stored state by reference; the stored  *)
(* state is replaced when they differ.  The caller is the host (a UI event *)
(* or a completed asynchronous effect: empty stack), an effect run by      *)
(* executeEffects, or a subscriber (both synchronous, reentrant).  The     *)
(* result of update is an input: any state reference, any effect list.     *)
(***************************************************************************)
TopKind == IF stack = <<>> THEN "host" ELSE Top.kind

CanCall == TopKind \in {"host", "effect", "listener"}

\* `same` is the outcome of the test this.state === nextState (core.ts:44) and
\* `stored` what this.state holds once core.ts:44-50 have run.
DispatchBody(next, effs, same, stored) ==
    /\ CanCall
    /\ calls < MaxCalls
    /\ LET frame == [NoFrame EXCEPT
                       !.kind = "dispatch", !.noop = same, !.arg = state,
                       !.next = next, !.prev = accepted,
                       !.effects = effs, !.pc = "effects", !.i = 1,
                       !.trace = IF same THEN <<>> ELSE <<Ev("state", stored)>>]
       IN  /\ state' = stored
           /\ stack' = Append(IF same THEN stack ELSE Mark(stack), frame)
           /\ accepted' = IF state = next THEN accepted ELSE next
    /\ calls' = calls + 1
    /\ tally' = IF tally.clean /\ ~same
                THEN [tally EXCEPT !.changes = @ + 1]
                ELSE tally
    /\ UNCHANGED <<subscribers, tokens, removed>>
    /\ UNCHANGED <<mapVars, clsVars, netVars, appVars>>

\* Mutation: the early return of core.ts:44-48 is missing, every dispatch goes
\* on to notify.
DispatchAlwaysNotifies(next, effs) == DispatchBody(next, effs, FALSE, next)

\* Mutation: a dispatch made while another call is running does not store
\* its result.
DispatchNestedLost(next, effs) ==
    DispatchBody(next, effs, state = next, IF stack = <<>> THEN next ELSE state)

DispatchCall(next, effs) == DispatchBody(next, effs, state = next, next)

(***************************************************************************)
(* executeEffects, core.ts:77-81: the next effect of the list is called    *)
(* with this.dispatch.                                                     *)
(***************************************************************************)
\* Mutation: the effect after the one called is skipped.
ExecuteEffectSkipsNext ==
    /\ stack # <<>>
    /\ Top.kind \in {"ctor", "dispatch"}
    /\ Top.pc = "effects"
    /\ Top.i <= Len(Top.effects)
    /\ LET e == Top.effects[Top.i]
           caller == [Top EXCEPT !.i = @ + 2, !.trace = Append(@, Ev("effect", e))]
           callee == [NoFrame EXCEPT !.kind = "effect", !.who = e]
       IN  stack' = Append(ReplaceTop(caller), callee)
    /\ UNCHANGED <<state, subscribers, tokens, calls, accepted, removed, tally>>
    /\ UNCHANGED <<mapVars, clsVars, netVars, appVars>>

ExecuteEffect ==
    /\ stack # <<>>
    /\ Top.kind \in {"ctor", "dispatch"}
    /\ Top.pc = "effects"
    /\ Top.i <= Len(Top.effects)
    /\ LET e == Top.effects[Top.i]
           caller == [Top EXCEPT !.i = @ + 1, !.trace = Append(@, Ev("effect", e))]
           callee == [NoFrame EXCEPT !.kind = "effect", !.who = e]
       IN  stack' = Append(ReplaceTop(caller), callee)
    /\ UNCHANGED <<state, subscribers, tokens, calls, accepted, removed, tally>>
    /\ UNCHANGED <<mapVars, clsVars, netVars, appVars>>

(***************************************************************************)
(* executeEffects has returned.  core.ts:47 (no-op transition) and         *)
(* core.ts:58-59 (constructor): the call returns.                          *)
(***************************************************************************)
ReturnAfterEffects ==
    /\ stack # <<>>
    /\ Top.kind \in {"ctor", "dispatch"}
    /\ Top.pc = "effects"
    /\ Top.i > Len(Top.effects)
    /\ Top.noop
    /\ stack' = Pop
    /\ UNCHANGED <<state, subscribers, tokens, calls, accepted, removed, tally>>
    /\ UNCHANGED <<mapVars, clsVars, netVars, appVars>>

(***************************************************************************)
(* core.ts:53: the for..of loop over this.subscribers is entered.          *)
(***************************************************************************)
TokenCalls(fn) == Cardinality({k \in 1..Len(removed) : removed[k].fn = fn})

TwiceMinusOne == {fn \in Listeners : Count(tokens, fn) = 2 /\ TokenCalls(fn) = 1}

\* Mutation: the loop over the subscribers starts at the second one.
BeginNotifySkipsFirst ==
    /\ stack # <<>>
    /\ Top.kind = "dispatch"
    /\ Top.pc = "effects"
    /\ Top.i > Len(Top.effects)
    /\ ~Top.noop
    /\ stack' = ReplaceTop([Top EXCEPT !.pc = "notify", !.j = 2,
                                      !.start = subscribers,
                                      !.scen = TwiceMinusOne])
    /\ UNCHANGED <<state, subscribers, tokens, calls, accepted, removed, tally>>
    /\ UNCHANGED <<mapVars, clsVars, netVars, appVars>>

BeginNotify ==
    /\ stack # <<>>
    /\ Top.kind = "dispatch"
    /\ Top.pc = "effects"
    /\ Top.i > Len(Top.effects)
    /\ ~Top.noop
    /\ stack' = ReplaceTop([Top EXCEPT !.pc = "notify", !.j = 1,
                                      !.start = subscribers,
                                      !.scen = TwiceMinusOne])
    /\ UNCHANGED <<state, subscribers, tokens, calls, accepted, removed, tally>>
    /\ UNCHANGED <<mapVars, clsVars, netVars, appVars>>

(***************************************************************************)
(* core.ts:53-55: one step of the loop.  The array iterator reads the      *)
(* length of the live array at every step and then the element at its      *)
(* index.                                                                  *)
(***************************************************************************)
NotifyNext ==
    /\ stack # <<>>
    /\ Top.kind = "dispatch"
    /\ Top.pc = "notify"
    /\ Top.j <= Len(subscribers)
    /\ LET s == subscribers[Top.j]
           caller == [Top EXCEPT !.j = @ + 1, !.trace = Append(@, Ev("notify", s.reg))]
           callee == [NoFrame EXCEPT !.kind = "listener", !.who = s.reg]
       IN  /\ stack' = Append(ReplaceTop(caller), callee)
           /\ tally' = IF tally.clean
                       THEN [tally EXCEPT !.invoked[s.reg] = @ + 1]
                       ELSE tally
    /\ UNCHANGED <<state, subscribers, tokens, calls, accepted, removed>>
    /\ UNCHANGED <<mapVars, clsVars, netVars, appVars>>

NotifyDone ==
    /\ stack # <<>>
    /\ Top.kind = "dispatch"
    /\ Top.pc = "notify"
    /\ Top.j > Len(subscribers)
    /\ stack' = Pop
    /\ UNCHANGED <<state, subscribers, tokens, calls, accepted, removed, tally>>
    /\ UNCHANGED <<mapVars, clsVars, netVars, appVars>>

(***************************************************************************)
(* An effect or a subscriber returns to its caller.                        *)
(***************************************************************************)
CalleeReturn ==
    /\ stack # <<>>
    /\ Top.kind \in {"effect", "listener"}
    /\ stack' = Pop
    /\ UNCHANGED <<state, subscribers, tokens, calls, accepted, removed, tally>>
    /\ UNCHANGED <<mapVars, clsVars, netVars, appVars>>

(***************************************************************************)
(* subscribe(subscriber), core.ts:65-75: the function is pushed and a      *)
(* closure over it is returned.  Called by the host or by a subscriber     *)
(* that is being notified.  Registration numbers are bookkeeping: the      *)
(* array itself holds the functions only.                                  *)
(***************************************************************************)
InRound(f) == f.kind = "dispatch" /\ f.pc = "notify"

Subscribe(fn) ==
    /\ TopKind \in {"host", "listener"}
    /\ calls < MaxCalls
    /\ LET reg == Len(tokens) + 1
       IN  /\ subscribers' = Append(subscribers, [fn |-> fn, reg |-> reg])
           /\ tokens' = Append(tokens, fn)
           /\ stack' = [k \in 1..Len(stack) |->
                          IF InRound(stack[k])
                          THEN [stack[k] EXCEPT !.added = @ \cup {reg}]
                          ELSE stack[k]]
    /\ calls' = calls + 1
    /\ tally' = NoTally(Len(tokens'), stack = <<>>)
    /\ UNCHANGED <<state, accepted, removed>>
    /\ UNCHANGED <<mapVars, clsVars, netVars, appVars>>

(***************************************************************************)
(* The closure returned by subscribe, core.ts:68-74: indexOf finds the     *)
(* first element identical to the captured function, splice removes it.    *)
(***************************************************************************)
IndexOf(arr, fn) ==
    IF \E k \in 1..Len(arr) : arr[k].fn = fn
    THEN CHOOSE k \in 1..Len(arr) :
            /\ arr[k].fn = fn
            /\ \A m \in 1..(k - 1) : arr[m].fn # fn
    ELSE 0

Splice(arr, index) ==
    [k \in 1..(Len(arr) - 1) |-> IF k < index THEN arr[k] ELSE arr[k + 1]]

Unsubscribe(t) ==
    /\ TopKind \in {"host", "listener"}
    /\ calls < MaxCalls
    /\ t \in 1..Len(tokens)
    /\ LET index == IndexOf(subscribers, tokens[t])
           reg == IF index = 0 THEN 0 ELSE subscribers[index].reg
       IN  /\ subscribers' = IF index # 0 THEN Splice(subscribers, index) ELSE subscribers
           /\ removed' = Append(removed, [token |-> t, fn |-> tokens[t], reg |-> reg,
                                           before |-> subscribers,
                                           after |-> subscribers'])
           /\ stack' = [k \in 1..Len(stack) |->
                          IF InRound(stack[k]) /\ index # 0
                          THEN [stack[k] EXCEPT !.gone = @ \cup {reg}]
                          ELSE stack[k]]
    /\ calls' = calls + 1
    /\ tally' = NoTally(Len(tokens), stack = <<>>)
    /\ UNCHANGED <<state, tokens, accepted>>
    /\ UNCHANGED <<mapVars, clsVars, netVars, appVars>>

NextProgram ==
    \/ \E next \in StateRefs, effs \in EffectLists : DispatchCall(next, effs)
    \/ ExecuteEffect
    \/ ReturnAfterEffects
    \/ BeginNotify
    \/ NotifyNext
    \/ NotifyDone
    \/ CalleeReturn
    \/ \E fn \in Listeners : Subscribe(fn)
    \/ \E t \in 1..MaxCalls : Unsubscribe(t)

SpecProgram == InitProgram /\ [][NextProgram]_vars

(***************************************************************************)
(* What the claims about ClientProgram are stated with.                    *)
(***************************************************************************)
DispatchFrames == {stack[k] : k \in {m \in 1..Len(stack) : stack[m].kind = "dispatch"}}

EffectEvents(effs, n) == [k \in 1..n |-> Ev("effect", effs[k])]

NotifyEvents(regs) == [k \in 1..Len(regs) |-> Ev("notify", regs[k].reg)]

Notified(f, reg) == Count(f.trace, Ev("notify", reg))

\* The call on top of the stack has nothing left to do but return.
Returning ==
    /\ stack # <<>>
    /\ Top.kind = "dispatch"
    /\ \/ Top.pc = "effects" /\ Top.i > Len(Top.effects) /\ Top.arg = Top.next
       \/ Top.pc = "notify" /\ Top.j > Len(subscribers)

\* C1: a dispatch whose update returned the stored state itself does not
\* store a state, invokes no subscriber, and executes the returned effects
\* once each in list order: while it runs, what it has done itself is the
\* executed prefix of its effect list, and when it returns, the whole list.
C1Thm ==
    /\ \A f \in DispatchFrames :
         f.arg = f.next =>
            /\ f.pc = "effects"
            /\ f.i <= Len(f.effects) + 1
            /\ f.trace = EffectEvents(f.effects, f.i - 1)
    /\ (Returning /\ Top.arg = Top.next) =>
            Top.trace = EffectEvents(Top.effects, Len(Top.effects))

C1Witness ==
    /\ Returning
    /\ Top.arg = Top.next
    /\ Top.effects = <<1, 2>>
    /\ Top.trace = <<Ev("effect", 1), Ev("effect", 2)>>
    /\ subscribers # <<>>

\* C2: a dispatch whose update returned another state stores it, then
\* executes each returned effect once in list order, then invokes every
\* subscriber registered when the notification began once, in
\* registration order.
C2Claim ==
    (Returning /\ Top.arg # Top.next) =>
        Top.trace = <<Ev("state", Top.next)>>
                    \o EffectEvents(Top.effects, Len(Top.effects))
                    \o NotifyEvents(Top.start)

\* C3: subscribe and unsubscribe called by a subscriber during a round leave
\* the round intact: no registration added during the round is invoked in
\* it, and every registration present at its start and not unsubscribed is
\* invoked exactly once in it.
C3NoAdded ==
    (Returning /\ Top.arg # Top.next) =>
        \A reg \in Top.added : Notified(Top, reg) = 0

C3AllOnce ==
    (Returning /\ Top.arg # Top.next) =>
        \A k \in 1..Len(Top.start) :
            Top.start[k].reg \notin Top.gone => Notified(Top, Top.start[k].reg) = 1

C3Claim == C3NoAdded /\ C3AllOnce

\* C4: a token removes exactly one registration of its listener, the first
\* one by identity, and leaves the registrations of other listeners alone;
\* after subscribing a listener twice and calling one token once, one
\* registration of it remains, and the listener is invoked exactly once by
\* the next state-changing dispatch.
RegsOf(arr, fn) == {arr[k].reg : k \in {m \in 1..Len(arr) : arr[m].fn = fn}}

Others(arr, fn) == SelectSeq(arr, LAMBDA r : r.fn # fn)

C4RemovesFirst ==
    \A k \in 1..Len(removed) :
        LET e == removed[k]
        IN  /\ Others(e.after, e.fn) = Others(e.before, e.fn)
            /\ RegsOf(e.before, e.fn) # {} =>
                 /\ Len(e.after) = Len(e.before) - 1
                 /\ \E m \in 1..Len(e.before) :
                      /\ e.before[m].fn = e.fn
                      /\ \A n \in 1..(m - 1) : e.before[n].fn # e.fn
                      /\ e.after = SubSeq(e.before, 1, m - 1)
                                   \o SubSeq(e.before, m + 1, Len(e.before))

C4OneRemains ==
    \A fn \in TwiceMinusOne : Cardinality(RegsOf(subscribers, fn)) = 1

C4InvokedOnce ==
    (Returning /\ Top.arg # Top.next) =>
        \A fn \in Top.scen :
            Cardinality({k \in 1..Len(Top.trace) :
                            /\ Top.trace[k].ev = "notify"
                            /\ tokens[Top.trace[k].id] = fn}) = 1

C4Claim == C4RemovesFirst /\ C4OneRemains /\ C4InvokedOnce

\* C5: under reentrant dispatch the transitions are linear: update is always
\* handed the result of the most recently accepted transition, and the
\* stored state is always that result (no call that started earlier
\* overwrites it).
C5Thm ==
    /\ state = accepted
    /\ \A f \in DispatchFrames : f.arg = f.prev

\* An effect of an accepted transition has dispatched, and that nested
\* transition was accepted too.
C5Witness ==
    /\ Len(stack) >= 3
    /\ stack[Len(stack) - 2].kind = "dispatch"
    /\ stack[Len(stack) - 2].arg # stack[Len(stack) - 2].next
    /\ stack[Len(stack) - 1].kind = "effect"
    /\ Top.kind = "dispatch"
    /\ Top.arg # Top.next
    /\ Top.arg = stack[Len(stack) - 2].next

(***************************************************************************)
(* Effect.map(fn, effect), core.ts:3-12.                                   *)
(*   mapFn    the transform fn                                             *)
(*   mapPc    "created": the mapped effect exists and has not been run;    *)
(*            "running": it was called, the inner effect holds the derived *)
(*            dispatch; "done": the inner effect dispatches no more        *)
(*   mapSent  the actions the inner effect has handed to its dispatch      *)
(*   mapOut   the actions the outer dispatch has received                  *)
(*   mapRuns  the number of calls of the inner effect                      *)
(***************************************************************************)
InnerActions == {1, 2, 3}

Transforms == {"wrap", "const", "mirror"}

\* fn(action): three transforms an embedding feature could pass.
Apply(fn, a) ==
    CASE fn = "wrap"   -> a + 10
      [] fn = "const"  -> 0
      [] fn = "mirror" -> 4 - a

IdleProgram ==
    /\ state = 0 /\ subscribers = <<>> /\ tokens = <<>> /\ stack = <<>>
    /\ calls = 0 /\ accepted = 0 /\ removed = <<>>
    /\ tally = NoTally(0, TRUE)

InitMap ==
    /\ IdleProgram
    /\ IdleClassify
    /\ IdleNet
    /\ IdleApp
    /\ mapFn \in Transforms
    /\ mapPc = "created"
    /\ mapSent = <<>>
    /\ mapOut = <<>>
    /\ mapRuns = 0

\* core.ts:8-9: the mapped effect is called with the outer dispatch and calls
\* the inner effect with the derived dispatch.
MapRun ==
    /\ mapPc = "created"
    /\ mapPc' = "running"
    /\ mapRuns' = mapRuns + 1
    /\ UNCHANGED <<mapSent, mapFn, mapOut, progVars, clsVars, netVars, appVars>>

\* Mutation: the derived dispatch passes the inner action on untransformed.
DerivedDispatchNoFn(out, fn, a) == Append(out, a)

\* core.ts:9: (action) => dispatch(fn(action)); `out` is what the outer
\* dispatch has received.
DerivedDispatch(out, fn, a) == Append(out, Apply(fn, a))

\* The inner effect dispatches an action, at once or later.
InnerDispatch(a) ==
    /\ mapPc = "running"
    /\ Len(mapSent) < MaxInner
    /\ mapSent' = Append(mapSent, a)
    /\ mapOut' = DerivedDispatch(mapOut, mapFn, a)
    /\ UNCHANGED <<mapFn, mapPc, mapRuns, progVars, clsVars, netVars, appVars>>

\* The inner effect has nothing more to dispatch.
InnerFinish ==
    /\ mapPc = "running"
    /\ mapPc' = "done"
    /\ UNCHANGED <<mapSent, mapFn, mapOut, mapRuns, progVars, clsVars, netVars, appVars>>

NextMap ==
    \/ MapRun
    \/ \E a \in InnerActions : InnerDispatch(a)
    \/ InnerFinish

SpecMap == InitMap /\ [][NextMap]_vars

\* C6: running the mapped effect runs the inner effect exactly once, and the
\* outer dispatch receives fn(a1)..fn(an) for the actions a1..an the inner
\* effect dispatches: same number, same order, nothing else.
C6Thm ==
    /\ mapPc = "created" => mapRuns = 0 /\ mapOut = <<>>
    /\ mapPc \in {"running", "done"} => mapRuns = 1
    /\ Len(mapOut) = Len(mapSent)
    /\ \A k \in 1..Len(mapSent) : mapOut[k] = Apply(mapFn, mapSent[k])

C6Witness ==
    /\ mapPc = "done"
    /\ mapFn = "wrap"
    /\ mapSent = <<2, 1, 2>>
    /\ mapOut = <<12, 11, 12>>

(***************************************************************************)
(* Aviary, core.ts:142-222.  A string is a sequence of characters.         *)
(* Maybe<A> is a sequence of length 0 (Nothing) or 1 (Just).               *)
(***************************************************************************)
Nothing == <<>>

Just(x) == <<x>>

\* Maybe.orElse
OrElse(m, alt) == IF m # Nothing THEN m ELSE alt

\* The lower-case form of a character.
LowerCase(ch) ==
    CASE ch = "C" -> "c"
      [] ch = "M" -> "m"
      [] OTHER -> ch

\* Mutation: the label is not lower-cased.
toLowerCaseMissing(s) == s

\* String.prototype.toLowerCase (core.ts:191) on the letters of the model.
toLowerCase(s) == [k \in 1..Len(s) |-> LowerCase(s[k])]

IsSpace(ch) == ch = " "

\* className.split(/,\s*/u), core.ts:192: a separator is a comma with all the
\* whitespace that follows it; the pieces between separators are returned,
\* empty ones included.
RECURSIVE SplitCommaFrom(_, _, _, _)
SplitCommaFrom(s, k, cur, acc) ==
    IF k > Len(s) THEN Append(acc, cur)
    ELSE IF s[k] = ","
         THEN LET rest == {m \in (k + 1)..Len(s) : ~IsSpace(s[m])}
                  next == IF rest = {} THEN Len(s) + 1
                          ELSE CHOOSE m \in rest : \A n \in rest : m <= n
              IN  SplitCommaFrom(s, next, <<>>, Append(acc, cur))
         ELSE SplitCommaFrom(s, k + 1, Append(cur, s[k]), acc)

SplitComma(s) == SplitCommaFrom(s, 1, <<>>, <<>>)

\* fragment.split(/\s|-/u), core.ts:201: every whitespace character and every
\* hyphen is a separator.
RECURSIVE SplitNamesFrom(_, _, _, _)
SplitNamesFrom(s, k, cur, acc) ==
    IF k > Len(s) THEN Append(acc, cur)
    ELSE IF IsSpace(s[k]) \/ s[k] = "-"
         THEN SplitNamesFrom(s, k + 1, <<>>, Append(acc, cur))
         ELSE SplitNamesFrom(s, k + 1, Append(cur, s[k]), acc)

SplitNames(s) == SplitNamesFrom(s, 1, <<>>, <<>>)

\* core.ts:203-210: names.reduce(result.orElse(() => this.breeds.get(breed)
\* .map(subBreeds => ({breed, subBreeds}))), Nothing), from names[k] on.
RECURSIVE ReduceBreed(_, _, _, _)
ReduceBreed(dict, names, k, acc) ==
    IF k > Len(names) THEN acc
    ELSE ReduceBreed(dict, names, k + 1,
            OrElse(acc, IF names[k] \in DOMAIN dict
                        THEN Just([breed |-> names[k], subBreeds |-> dict[names[k]]])
                        ELSE Nothing))

\* core.ts:214-220: names.reduce(result.orElse(() =>
\* subBreeds.member(subBreed) ? Just(subBreed) : Nothing), Nothing).
RECURSIVE ReduceSubBreed(_, _, _, _)
ReduceSubBreed(subBreeds, names, k, acc) ==
    IF k > Len(names) THEN acc
    ELSE ReduceSubBreed(subBreeds, names, k + 1,
            OrElse(acc, IF names[k] \in subBreeds THEN Just(names[k]) ELSE Nothing))

\* Mutation: only the first name of a fragment is tried as a breed.
classifyFragmentFirstName(dict, match, fragment) ==
    LET names == SplitNames(fragment)
        found == ReduceBreed(dict, SubSeq(names, 1, 1), 1, Nothing)
    IN  IF found = Nothing THEN Nothing
        ELSE Just([match |-> match,
                   breed |-> found[1].breed,
                   subBreed |-> ReduceSubBreed(found[1].subBreeds, names, 1, Nothing)])

\* Aviary.classifyFragment, core.ts:200-222.
classifyFragment(dict, match, fragment) ==
    LET names == SplitNames(fragment)
        found == ReduceBreed(dict, names, 1, Nothing)
    IN  IF found = Nothing THEN Nothing
        ELSE Just([match |-> match,
                   breed |-> found[1].breed,
                   subBreed |-> ReduceSubBreed(found[1].subBreeds, names, 1, Nothing)])

\* core.ts:193-197: the reduce over the fragments.
RECURSIVE ReduceFragments(_, _, _, _, _)
ReduceFragments(dict, match, fragments, k, acc) ==
    IF k > Len(fragments) THEN acc
    ELSE ReduceFragments(dict, match, fragments, k + 1,
            OrElse(acc, classifyFragment(dict, match, fragments[k])))

\* Mutation: a whole fragment of the label may also name the sub-breed.
classifySingleWholeFragment(dict, match, className) ==
    LET fragments == SplitComma(toLowerCase(className))
        found == ReduceFragments(dict, match, fragments, 1, Nothing)
    IN  IF found = Nothing THEN Nothing
        ELSE Just([found[1] EXCEPT
                     !.subBreed = OrElse(@, ReduceSubBreed(dict[found[1].breed],
                                                           fragments, 1, Nothing))])

\* Aviary.classifySingle, core.ts:189-198.
classifySingle(dict, match, className) ==
    ReduceFragments(dict, match, SplitComma(toLowerCase(className)), 1, Nothing)

\* The comparator of core.ts:181.
Compare(left, right) == right.probability - left.probability

\* Mutation: an element is placed before the elements it ties with.
InsertUnstable(sorted, x) ==
    LET k == Cardinality({m \in 1..Len(sorted) : Compare(sorted[m], x) < 0})
    IN  SubSeq(sorted, 1, k) \o <<x>> \o SubSeq(sorted, k + 1, Len(sorted))

\* One step of Array.prototype.sort on the copy made by slice(), core.ts:
\* 180-181.  The sort is stable (ECMAScript 2019, and every engine for
\* arrays this short): x goes behind every element the comparator does not
\* order after it.
Insert(sorted, x) ==
    LET k == Cardinality({m \in 1..Len(sorted) : Compare(sorted[m], x) <= 0})
    IN  SubSeq(sorted, 1, k) \o <<x>> \o SubSeq(sorted, k + 1, Len(sorted))

RECURSIVE SortFrom(_, _, _)
SortFrom(list, k, sorted) ==
    IF k > Len(list) THEN sorted
    ELSE SortFrom(list, k + 1, Insert(sorted, list[k]))

Sort(list) == SortFrom(list, 1, <<>>)

\* core.ts:182-186: the reduce over the sorted classifications.
RECURSIVE ReduceClassifications(_, _, _, _)
ReduceClassifications(dict, sorted, k, acc) ==
    IF k > Len(sorted) THEN acc
    ELSE ReduceClassifications(dict, sorted, k + 1,
            OrElse(acc, classifySingle(dict, sorted[k].probability, sorted[k].className)))

\* Mutation: the list is walked in the order given, not sorted.
classifyUnsorted(dict, classifications) ==
    ReduceClassifications(dict, classifications, 1, Nothing)

\* Aviary.classify, core.ts:178-187.
classify(dict, classifications) ==
    ReduceClassifications(dict, Sort(classifications), 1, Nothing)

(***************************************************************************)
(* Inputs of the classifier.                                               *)
(***************************************************************************)
\* The index: breed -> set of sub-breed names, as aviaryDecoder builds it
\* from the catalog.  "c" has a one-word and a two-word sub-breed; the one
\* sub-breed of "cm" is also the name of a breed.
Catalog ==
    (<<"c">> :> {<<"m">>, <<"m", " ", "m">>}) @@ (<<"c", "m">> :> {<<"c">>})

\* Probabilities in percent.
Probabilities == {50, 90, 99}

Pieces == {<<"c">>, <<"C">>, <<"m">>, <<",">>, <<",", " ">>, <<" ">>, <<"-">>}

RECURSIVE Strings(_)
Strings(n) ==
    IF n = 0 THEN {<<>>}
    ELSE LET shorter == Strings(n - 1)
         IN  shorter \cup {s \o p : s \in shorter, p \in Pieces}

\* The labels of the classifications of a list: "C", "m", "m-c", "m, cm".
ListLabels ==
    {<<"C">>, <<"m">>, <<"m", "-", "c">>, <<"m", ",", " ", "c", "m">>}

Classification(l, p) == [className |-> l, probability |-> p]

RECURSIVE Lists(_)
Lists(n) ==
    IF n = 0 THEN {<<>>}
    ELSE LET shorter == Lists(n - 1)
         IN  shorter \cup {Append(cs, Classification(l, p)) :
                              cs \in shorter, l \in ListLabels, p \in Probabilities}

InitClassify ==
    /\ IdleProgram
    /\ IdleMap
    /\ IdleNet
    /\ IdleApp
    /\ breeds = Catalog
    /\ input \in Lists(MaxList)
                 \cup {<<Classification(l, 90)>> : l \in Strings(MaxPieces)}
    /\ result = Nothing
    /\ cpc = "ready"

\* aviary.classify(classifications), as called at part_000:55.
Classify ==
    /\ cpc = "ready"
    /\ result' = classify(breeds, input)
    /\ cpc' = "done"
    /\ UNCHANGED <<breeds, input, progVars, mapVars, netVars, appVars>>

NextClassify == Classify

SpecClassify == InitClassify /\ [][NextClassify]_vars

(***************************************************************************)
(* What the claims about the classifier are stated with: the resolution of *)
(* a label described by positions, not by the reduce chains of the code.   *)
(***************************************************************************)
Min(S) == CHOOSE x \in S : \A y \in S : x <= y

Fragments(label) == SplitComma(toLowerCase(label))

KeyPositions(names) == {j \in 1..Len(names) : names[j] \in DOMAIN breeds}

HasBreed(fragment) == KeyPositions(SplitNames(fragment)) # {}

BreedFragments(label) ==
    {i \in 1..Len(Fragments(label)) : HasBreed(Fragments(label)[i])}

Resolvable(label) == BreedFragments(label) # {}

\* The Probe of a resolvable label: first fragment with a name that is a key,
\* first such name, first name of the fragment in that breed's set.
Expected(label, p) ==
    LET names == SplitNames(Fragments(label)[Min(BreedFragments(label))])
        b == names[Min(KeyPositions(names))]
        subs == {j \in 1..Len(names) : names[j] \in breeds[b]}
    IN  [match |-> p, breed |-> b,
         subBreed |-> IF subs = {} THEN Nothing ELSE Just(names[Min(subs)])]

ResolvableAt == {k \in 1..Len(input) : Resolvable(input[k].className)}

Best == {k \in ResolvableAt :
            \A m \in ResolvableAt : input[m].probability <= input[k].probability}

ProbeOf(k) == Expected(input[k].className, input[k].probability)

\* C7: classify returns the Probe of a resolvable label of the highest
\* probability among the resolvable ones, with that probability as its
\* confidence, whatever unresolvable labels rank above it; it returns
\* nothing when the list is empty or no label resolves.
C7Thm ==
    cpc = "done" =>
        IF ResolvableAt = {} THEN result = Nothing
        ELSE \E k \in Best : result = Just(ProbeOf(k))

\* classify([{"m", 0.99}, {"C", 0.5}]): the unresolvable label ranks first.
C7Witness ==
    /\ cpc = "done"
    /\ input = <<Classification(<<"m">>, 99), Classification(<<"C">>, 50)>>
    /\ result = Just([match |-> 50, breed |-> <<"c">>, subBreed |-> Nothing])

\* C8: among resolvable labels that tie at the highest probability, the one
\* that comes first in the input list gives the Probe.
C8Thm ==
    (cpc = "done" /\ Best # {}) => result = Just(ProbeOf(Min(Best)))

\* Two resolvable labels tie, with different Probes, below an unresolvable
\* one; the first of the two wins.
C8Witness ==
    /\ cpc = "done"
    /\ input = <<Classification(<<"m">>, 99),
                 Classification(<<"m", "-", "c">>, 90),
                 Classification(<<"C">>, 90)>>
    /\ result = Just([match |-> 90, breed |-> <<"c">>, subBreed |-> Just(<<"m">>)])

\* C9 as stated: for a breed b with a multi-word sub-breed s, the single label
\* "B, S" in any letter case gives breed b with sub-breed s.
SameIgnoringCase(x, y) ==
    /\ Len(x) = Len(y)
    /\ \A k \in 1..Len(x) : LowerCase(x[k]) = LowerCase(y[k])

C9Case(b, s) ==
    /\ cpc = "done"
    /\ Len(input) = 1
    /\ b \in DOMAIN breeds
    /\ s \in breeds[b]
    /\ " " \in Range(s)
    /\ SplitNames(b) = <<b>>
    /\ b \notin breeds[b]
    /\ SameIgnoringCase(input[1].className, b \o <<",", " ">> \o s)

C9Claim ==
    \A b \in DOMAIN breeds : \A s \in breeds[b] :
        C9Case(b, s) =>
            result = Just([match |-> input[1].probability, breed |-> b,
                           subBreed |-> Just(s)])

\* C9 as the code has it: the label "B, S" gives breed b with the label's
\* probability and no sub-breed, because only the names of the fragment "B"
\* are looked up in b's set.
C9Thm ==
    \A b \in DOMAIN breeds : \A s \in breeds[b] :
        C9Case(b, s) =>
            result = Just([match |-> input[1].probability, breed |-> b,
                           subBreed |-> Nothing])

C9Witness ==
    /\ C9Case(<<"c">>, <<"m", " ", "m">>)
    /\ input = <<Classification(<<"C", ",", " ", "m", " ", "m">>, 90)>>
    /\ result = Just([match |-> 90, breed |-> <<"c">>, subBreed |-> Nothing])

\* C10: one label resolves through its first comma-separated fragment that
\* has a name (split on whitespace or hyphen) that is a key of the index;
\* the first such name is the breed, the first name of that fragment in the
\* breed's set is the sub-breed, else there is none.  So every Probe has a
\* breed that is a key and a sub-breed, if any, that is in the breed's set
\* and is a name of the fragment the breed was found in.
C10Thm ==
    /\ (cpc = "done" /\ Len(input) = 1) =>
          IF Resolvable(input[1].className)
          THEN result = Just(ProbeOf(1))
          ELSE result = Nothing
    /\ (cpc = "done" /\ result # Nothing) =>
          /\ result[1].breed \in DOMAIN breeds
          /\ result[1].subBreed # Nothing =>
                /\ result[1].subBreed[1] \in breeds[result[1].breed]
                /\ \E k \in 1..Len(input) :
                     \E i \in 1..Len(Fragments(input[k].className)) :
                        LET names == Range(SplitNames(Fragments(input[k].className)[i]))
                        IN  result[1].breed \in names /\ result[1].subBreed[1] \in names

\* "m-C": the second name is the breed, the first one its sub-breed.
C10Witness ==
    /\ cpc = "done"
    /\ input = <<Classification(<<"m", "-", "C">>, 90)>>
    /\ result = Just([match |-> 90, breed |-> <<"c">>, subBreed |-> Just(<<"m">>)])

(***************************************************************************)
(* Remote calls, core.ts:121-176: Aviary.init fetches the catalog and      *)
(* dispatches the tagged result; Aviary.search fetches the images of a     *)
(* Probe and returns a promise.  Both decode the response text with        *)
(* dogApiDecoder around an inner decoder.                                  *)
(*                                                                         *)
(* A JSON value is [t, s, items, fields]: t its type, s the characters of  *)
(* a string, items the elements of a list, fields the <<key, value>> pairs *)
(* of an object.  A response text is described by what decodeJSON and the  *)
(* two Decode.field lookups of dogApiDecoder see of it: whether JSON.parse *)
(* accepts it, whether it is an object, and its "status" and "message"     *)
(* fields if it has them.                                                  *)
(***************************************************************************)
JString(chars) == [t |-> "string", s |-> chars, items |-> <<>>, fields |-> <<>>]

JNumber == [t |-> "number", s |-> <<>>, items |-> <<>>, fields |-> <<>>]

JList(items) == [t |-> "list", s |-> <<>>, items |-> items, fields |-> <<>>]

JObject(fields) == [t |-> "object", s |-> <<>>, items |-> <<>>, fields |-> fields]

\* Either<E, A>: Left carries the kind of the error and its text.
Right(value) == [ok |-> TRUE, why |-> "", text |-> <<>>, value |-> value]

Left(why, text) == [ok |-> FALSE, why |-> why, text |-> text, value |-> <<>>]

\* Decode.string
DecodeString(v) ==
    IF v.t = "string" THEN Right(v.s) ELSE Left("type", <<>>)

\* Mutation: elements that are not strings are left out of the list.
DecodeListLenient(v) ==
    IF v.t # "list" THEN Left("type", <<>>)
    ELSE LET strings == SelectSeq(v.items, LAMBDA x : x.t = "string")
         IN  Right([k \in 1..Len(strings) |-> strings[k].s])

\* Decode.list(Decode.string), core.ts:139 and 169: every element has to be
\* a string.
DecodeList(v) ==
    IF v.t # "list" THEN Left("type", <<>>)
    ELSE IF \E k \in 1..Len(v.items) : ~DecodeString(v.items[k]).ok
         THEN Left("type", <<>>)
         ELSE Right([k \in 1..Len(v.items) |-> DecodeString(v.items[k]).value])

\* Decode.keyValue(Decode.list(Decode.string).map(Set.fromList)), core.ts:
\* 138-139: the value has to be an object and every value in it a list of
\* strings; the result is the list of <<key, set>> pairs.
DecodeKeyValue(v) ==
    IF v.t # "object" THEN Left("type", <<>>)
    ELSE IF \E k \in 1..Len(v.fields) : ~DecodeList(v.fields[k][2]).ok
         THEN Left("type", <<>>)
         ELSE Right([k \in 1..Len(v.fields) |->
                        <<v.fields[k][1], Range(DecodeList(v.fields[k][2]).value)>>])

\* Dict.fromList(pairs), core.ts:140: the index has the keys and the sets of
\* the pairs, as they are spelled in the catalog.
FromList(pairs) ==
    [key \in {pairs[k][1] : k \in 1..Len(pairs)} |->
        pairs[CHOOSE k \in 1..Len(pairs) : pairs[k][1] = key][2]]

\* aviaryDecoder, core.ts:138-140.
aviaryDecoder(v) ==
    LET pairs == DecodeKeyValue(v)
    IN  IF pairs.ok THEN Right(FromList(pairs.value)) ELSE pairs

\* The inner decoder of a call: aviaryDecoder in Aviary.init (core.ts:151),
\* Decode.list(Decode.string) in Aviary.search (core.ts:169).
Inner(op, v) == IF op = "init" THEN aviaryDecoder(v) ELSE DecodeList(v)

\* Mutation: every status but "error" is taken for a success.
dogApiDecoderAnyStatus(op, r) ==
    IF ~r.object \/ r.status = <<>> THEN Left("field", <<>>)
    ELSE IF r.status[1].t # "string" THEN Left("type", <<>>)
    ELSE IF r.status[1].s = "error"
         THEN IF r.message = <<>> THEN Left("field", <<>>)
              ELSE IF ~DecodeString(r.message[1]).ok THEN Left("type", <<>>)
              ELSE Left("fail", DecodeString(r.message[1]).value)
    ELSE IF r.message = <<>> THEN Left("field", <<>>)
         ELSE Inner(op, r.message[1])

\* dogApiDecoder(decoder), core.ts:121-136, applied to a parsed response.
dogApiDecoder(op, r) ==
    IF ~r.object \/ r.status = <<>> THEN Left("field", <<>>)
    ELSE IF r.status[1].t # "string" THEN Left("type", <<>>)
    ELSE IF r.status[1].s = "error"
         THEN IF r.message = <<>> THEN Left("field", <<>>)
              ELSE IF ~DecodeString(r.message[1]).ok THEN Left("type", <<>>)
              ELSE Left("fail", DecodeString(r.message[1]).value)
    ELSE IF r.status[1].s = "success"
         THEN IF r.message = <<>> THEN Left("field", <<>>)
              ELSE Inner(op, r.message[1])
    ELSE Left("fail", <<"Unknown status">>)

\* decoder.decodeJSON(json), core.ts:151 and 169: a text JSON.parse rejects
\* is a Left.
decodeJSON(op, r) == IF ~r.parsed THEN Left("json", <<>>) ELSE dogApiDecoder(op, r)

(***************************************************************************)
(* Inputs of the remote calls.                                             *)
(***************************************************************************)
Status(t, s) == [t |-> t, s |-> s]

\* The "status" field: missing, not a string, or one of three strings.
Statuses ==
    {<<>>, <<Status("number", "")>>, <<Status("string", "success")>>,
     <<Status("string", "error")>>, <<Status("string", "ok")>>}

\* A catalog in lower case (the index Catalog), one with capital letters,
\* and two that are mappings of which one entry is not a list of strings.
CatalogPayloads ==
    {JObject(<<>>),
     JObject(<< <<(<<"c">>), JList(<<JString(<<"m">>), JString(<<"m", " ", "m">>)>>)>>,
                <<(<<"c", "m">>), JList(<<JString(<<"c">>)>>)>> >>),
     JObject(<< <<(<<"C">>), JList(<<JString(<<"M">>)>>)>> >>),
     JObject(<< <<(<<"c">>), JList(<<JString(<<"m">>)>>)>>,
                <<(<<"c", "m">>), JNumber>> >>),
     JObject(<< <<(<<"c">>), JList(<<JString(<<"m">>), JNumber>>)>> >>)}

\* Lists of image addresses "u", "v", one of them with an element that is
\* not a string.
ListPayloads ==
    {JList(<<>>), JList(<<JString(<<"u">>)>>),
     JList(<<JString(<<"u">>), JString(<<"v">>)>>),
     JList(<<JString(<<"u">>), JNumber>>)}

Payloads == CatalogPayloads \cup ListPayloads \cup {JString(<<"e">>), JNumber}

Responses ==
    {[parsed |-> FALSE, object |-> FALSE, status |-> <<>>, message |-> <<>>],
     [parsed |-> TRUE, object |-> FALSE, status |-> <<>>, message |-> <<>>]}
    \cup [parsed : {TRUE}, object : {TRUE}, status : Statuses,
          message : {<<>>} \cup {<<p>> : p \in Payloads}]

\* The Probes search is called with: classify's results on Catalog.
Probes ==
    {[match |-> 90, breed |-> <<"c">>, subBreed |-> Nothing],
     [match |-> 90, breed |-> <<"c">>, subBreed |-> Just(<<"m">>)],
     [match |-> 50, breed |-> <<"c", "m">>, subBreed |-> Just(<<"c">>)]}

Calls ==
    {[op |-> "init", probe |-> <<>>]} \cup {[op |-> "search", probe |-> <<p>>] : p \in Probes}

InitNet ==
    /\ IdleProgram
    /\ IdleMap
    /\ IdleClassify
    /\ IdleApp
    /\ call \in Calls
    /\ requests = <<>>
    /\ response = <<>>
    /\ outcome = [pc |-> "created", dispatched |-> 0, result |-> <<>>]

\* Mutation: the sub-breed is left out of the path.
methodWithoutSubBreed(breed) == <<"breed/">> \o breed.breed \o <<"/images">>

\* core.ts:161-165: the path of the images of a Probe; the literal parts of
\* the template strings are single symbols.
method(breed) ==
    IF breed.subBreed = Nothing
    THEN <<"breed/">> \o breed.breed \o <<"/images">>
    ELSE <<"breed/">> \o breed.breed \o <<"/">> \o breed.subBreed[1] \o <<"/images">>

\* Aviary.init's effect is run, core.ts:148-149: fetch(breeds/list/all).
AviaryInit ==
    /\ call.op = "init"
    /\ outcome.pc = "created"
    /\ requests' = Append(requests, <<"breeds/list/all">>)
    /\ outcome' = [outcome EXCEPT !.pc = "pending"]
    /\ UNCHANGED <<call, response, progVars, mapVars, clsVars, appVars>>

\* Aviary.search(breed) is called, core.ts:160-167: fetch(method).
AviarySearch ==
    /\ call.op = "search"
    /\ outcome.pc = "created"
    /\ requests' = Append(requests, method(call.probe[1]))
    /\ outcome' = [outcome EXCEPT !.pc = "pending"]
    /\ UNCHANGED <<call, response, progVars, mapVars, clsVars, appVars>>

\* fetch or response.text() rejects.  init: the second callback of the last
\* then dispatches tagger(Left(String(error))), core.ts:155; search: the
\* promise it returned rejects, core.ts:167-175.
FetchRejects ==
    /\ outcome.pc = "pending"
    /\ outcome' = [pc |-> "settled",
                   dispatched |-> IF call.op = "init" THEN outcome.dispatched + 1
                                  ELSE outcome.dispatched,
                   result |-> <<Left("transport", <<>>)>>]
    /\ UNCHANGED <<call, requests, response, progVars, mapVars, clsVars, appVars>>

\* The response text arrives and is decoded.  init: dispatch(tagger(result
\* .mapLeft(stringify))), core.ts:151-154; search: the promise resolves with
\* the pictures or rejects with the error, core.ts:169-175.
TextArrives(r) ==
    /\ outcome.pc = "pending"
    /\ response' = <<r>>
    /\ outcome' = [pc |-> "settled",
                   dispatched |-> IF call.op = "init" THEN outcome.dispatched + 1
                                  ELSE outcome.dispatched,
                   result |-> <<decodeJSON(call.op, r)>>]
    /\ UNCHANGED <<call, requests, progVars, mapVars, clsVars, appVars>>

NextNet ==
    \/ AviaryInit
    \/ AviarySearch
    \/ FetchRejects
    \/ \E r \in Responses : TextArrives(r)

SpecNet == InitNet /\ [][NextNet]_vars

(***************************************************************************)
(* What the claims about the remote calls are stated with.                 *)
(***************************************************************************)
Settled == outcome.pc = "settled"

AllStrings(v) == v.t = "list" /\ \A k \in 1..Len(v.items) : v.items[k].t = "string"

\* The payload is all that the inner decoder of the call asks for.
WellFormed(op, p) ==
    IF op = "init"
    THEN p.t = "object" /\ \A k \in 1..Len(p.fields) : AllStrings(p.fields[k][2])
    ELSE AllStrings(p)

SuccessEnvelope(op, r) ==
    /\ r.parsed
    /\ r.object
    /\ r.status = <<Status("string", "success")>>
    /\ r.message # <<>>
    /\ WellFormed(op, r.message[1])

\* The value holds everything the payload holds.
Complete(op, p, value) ==
    IF op = "init"
    THEN /\ DOMAIN value = {p.fields[k][1] : k \in 1..Len(p.fields)}
         /\ \A k \in 1..Len(p.fields) :
               value[p.fields[k][1]] =
                   {p.fields[k][2].items[m].s : m \in 1..Len(p.fields[k][2].items)}
    ELSE /\ Len(value) = Len(p.items)
         /\ \A k \in 1..Len(p.items) : value[k] = p.items[k].s

\* C11 as stated: the index built from a decoded catalog has lower-case keys
\* and lower-case sub-breed names only, and a label that is the name of a
\* breed of the catalog resolves to that breed whatever the letter case.
C11Claim ==
    (Settled /\ call.op = "init" /\ outcome.result[1].ok) =>
        LET index == outcome.result[1].value
            catalog == response[1].message[1].fields
        IN  /\ \A key \in DOMAIN index :
                 /\ key = toLowerCase(key)
                 /\ \A name \in index[key] : name = toLowerCase(name)
            /\ \A k \in 1..Len(catalog) :
                 /\ classifySingle(index, 90, catalog[k][1]) # Nothing
                 /\ classifySingle(index, 90, catalog[k][1])[1].breed
                        = toLowerCase(catalog[k][1])

\* C12: the decoded result is a success exactly when the text parses, is an
\* object, has the status "success" and a message that is all the inner
\* decoder asks for, and then it holds the whole payload; the status "error"
\* with a string message is a failure carrying that string; every other
\* response, and a transport error, is a failure without a value.
C12Thm ==
    Settled =>
        LET e == outcome.result[1]
        IN  IF response = <<>> THEN ~e.ok /\ e.value = <<>>
            ELSE LET r == response[1]
                 IN  /\ e.ok <=> SuccessEnvelope(call.op, r)
                     /\ e.ok => Complete(call.op, r.message[1], e.value)
                     /\ ~e.ok => e.value = <<>>
                     /\ (/\ r.status = <<Status("string", "error")>>
                         /\ r.message # <<>>
                         /\ r.message[1].t = "string")
                           => ~e.ok /\ e.why = "fail" /\ e.text = r.message[1].s

\* A catalog whose second entry is not a list: no index is published.
C12Witness ==
    /\ Settled
    /\ call.op = "init"
    /\ response # <<>>
    /\ response[1].status = <<Status("string", "success")>>
    /\ response[1].message =
          <<JObject(<< <<(<<"c">>), JList(<<JString(<<"m">>)>>)>>,
                       <<(<<"c", "m">>), JNumber>> >>)>>
    /\ ~outcome.result[1].ok
    /\ outcome.result[1].value = <<>>

\* C13: search issues exactly one request, to breed/{breed}/images for a
\* Probe without a sub-breed and to breed/{breed}/{subBreed}/images for one
\* with a sub-breed; its promise resolves with the whole list of a success
\* envelope around a list of strings and rejects in every other case.
C13Thm ==
    call.op = "search" =>
        LET probe == call.probe[1]
        IN  /\ outcome.pc = "created" => requests = <<>>
            /\ outcome.pc # "created" =>
                  /\ Len(requests) = 1
                  /\ probe.subBreed = <<>> =>
                        requests[1] = <<"breed/">> \o probe.breed \o <<"/images">>
                  /\ probe.subBreed # <<>> =>
                        requests[1] = <<"breed/">> \o probe.breed \o <<"/">>
                                         \o probe.subBreed[1] \o <<"/images">>
            /\ Settled =>
                  IF response # <<>> /\ SuccessEnvelope("search", response[1])
                  THEN /\ outcome.result[1].ok
                       /\ outcome.result[1].value
                             = [k \in 1..Len(response[1].message[1].items) |->
                                   response[1].message[1].items[k].s]
                  ELSE ~outcome.result[1].ok /\ outcome.result[1].value = <<>>

C13Witness ==
    /\ Settled
    /\ call = [op |-> "search",
               probe |-> <<[match |-> 90, breed |-> <<"c">>, subBreed |-> <<(<<"m">>)>>]>>]
    /\ requests = << <<"breed/", "c", "/", "m", "/images">> >>
    /\ outcome.result[1].ok
    /\ outcome.result[1].value = << <<"u">>, <<"v">> >>

(***************************************************************************)
(* The application, part_000:36-251: the actions with their update         *)
(* methods and effects, run by the program.  A File is identified by a     *)
(* number, and the data URL read from file f is the picture f.             *)
(*                                                                         *)
(* RemoteData<E, A> is [tag, error, value]: error the message of a         *)
(* Failure, value the Maybe of what a Succeed holds.                       *)
(***************************************************************************)
NotAsked == [tag |-> "NotAsked", error |-> "", value |-> <<>>]

Loading == [tag |-> "Loading", error |-> "", value |-> <<>>]

Failure(error) == [tag |-> "Failure", error |-> error, value |-> <<>>]

Succeed(value) == [tag |-> "Succeed", error |-> "", value |-> <<value>>]

\* An effect in the list update returns: Toast.warning(text).show(),
\* Toast.error(text).show(), ReadPicture.run(file), Classify.run(mobilenet,
\* aviary, picture).
Toast(level, text) == [kind |-> level, text |-> text, pic |-> 0]

ReadPictureRun(file) == [kind |-> "ReadPicture.run", text |-> "", pic |-> file]

ClassifyRun(picture) == [kind |-> "Classify.run", text |-> "", pic |-> picture]

\* What update returns: the state, the effects, and whether the state is
\* the object it was given (`same`) or a new object made by a spread.
Update(s, effs, same) == [state |-> s, effects |-> effs, same |-> same]

\* Classify.update, part_000:67-87.
ClassifyUpdate(action, s) ==
    IF ~action.ok
    THEN Update([s EXCEPT !.sameBreedDogs = Failure(action.why)],
                <<Toast("Toast.error", action.why)>>, FALSE)
    ELSE Update([s EXCEPT !.sameBreedDogs = Succeed(action.value)], <<>>, FALSE)

\* Mutation: a failed read also resets the results.
ReadPictureUpdateResets(action, s) ==
    IF ~action.ok
    THEN Update([s EXCEPT !.sameBreedDogs = NotAsked],
                <<Toast("Toast.warning", action.why)>>, FALSE)
    ELSE Update([s EXCEPT !.picture = Just(action.value)],
                IF s.aviary.tag = "Succeed" /\ s.mobilenet.tag = "Succeed"
                THEN <<ClassifyRun(action.value)>> ELSE <<>>,
                FALSE)

\* ReadPicture.update, part_000:117-139.
ReadPictureUpdate(action, s) ==
    IF ~action.ok
    THEN Update(s, <<Toast("Toast.warning", action.why)>>, TRUE)
    ELSE Update([s EXCEPT !.picture = Just(action.value)],
                IF s.aviary.tag = "Succeed" /\ s.mobilenet.tag = "Succeed"
                THEN <<ClassifyRun(action.value)>> ELSE <<>>,
                FALSE)

\* Mutation: dropping a picture forgets the picture shown.
DropPictureUpdateForgets(file, s) ==
    Update([s EXCEPT !.sameBreedDogs = Loading, !.picture = Nothing],
           IF file = Nothing
           THEN <<Toast("Toast.warning", "It waits for pictures only")>>
           ELSE <<ReadPictureRun(file[1])>>,
           FALSE)

\* DropPicture.update, part_000:145-157.
DropPictureUpdate(file, s) ==
    Update([s EXCEPT !.sameBreedDogs = Loading],
           IF file = Nothing
           THEN <<Toast("Toast.warning", "It waits for pictures only")>>
           ELSE <<ReadPictureRun(file[1])>>,
           FALSE)

\* Mutation: a loaded model makes the index be awaited again.
LoadMobileNetUpdateResetsAviary(action, s) ==
    IF ~action.ok
    THEN Update([s EXCEPT !.mobilenet = Failure(action.why)],
                <<Toast("Toast.error", action.why)>>, FALSE)
    ELSE Update([s EXCEPT !.mobilenet = Succeed(action.value), !.aviary = Loading],
                <<>>, FALSE)

\* LoadMobileNet.update, part_000:169-194.
LoadMobileNetUpdate(action, s) ==
    IF ~action.ok
    THEN Update([s EXCEPT !.mobilenet = Failure(action.why)],
                <<Toast("Toast.error", action.why)>>, FALSE)
    ELSE Update([s EXCEPT !.mobilenet = Succeed(action.value)],
                IF s.aviary.tag = "Succeed" /\ s.picture # Nothing
                THEN <<ClassifyRun(s.picture[1])>> ELSE <<>>,
                FALSE)

\* Mutation: a loaded index starts no classification.
LoadAviaryUpdateNoJoin(action, s) ==
    IF ~action.ok
    THEN Update([s EXCEPT !.aviary = Failure(action.why)],
                <<Toast("Toast.error", action.why)>>, FALSE)
    ELSE Update([s EXCEPT !.aviary = Succeed(action.value)], <<>>, FALSE)

\* LoadAviary.update, part_000:202-228.
LoadAviaryUpdate(action, s) ==
    IF ~action.ok
    THEN Update([s EXCEPT !.aviary = Failure(action.why)],
                <<Toast("Toast.error", action.why)>>, FALSE)
    ELSE Update([s EXCEPT !.aviary = Succeed(action.value)],
                IF s.mobilenet.tag = "Succeed" /\ s.picture # Nothing
                THEN <<ClassifyRun(s.picture[1])>> ELSE <<>>,
                FALSE)

\* init, part_000:240-251: the initial State.
InitialState ==
    [picture |-> Nothing, aviary |-> Loading, mobilenet |-> Loading,
     sameBreedDogs |-> NotAsked]

(***************************************************************************)
(* Bounds and inputs of the application.                                   *)
(***************************************************************************)
MaxDrops == 3    \* DropPicture actions dispatched in one behaviour

Files == {1, 2}

\* What mobilenet.classify resolves with: nothing, a label that resolves to
\* no breed, and a list whose second label resolves.
ClassifierOutputs ==
    {<<>>,
     <<Classification(<<"m">>, 99)>>,
     <<Classification(<<"m">>, 99), Classification(<<"m", "-", "C">>, 50)>>}

Envelope(status, payload) ==
    [parsed |-> TRUE, object |-> TRUE,
     status |-> <<Status("string", status)>>, message |-> <<payload>>]

\* Responses to breeds/list/all: the catalog, an error envelope, a catalog
\* with an entry that is not a list.
InitResponses ==
    {Envelope("success",
        JObject(<< <<(<<"c">>), JList(<<JString(<<"m">>), JString(<<"m", " ", "m">>)>>)>>,
                   <<(<<"c", "m">>), JList(<<JString(<<"c">>)>>)>> >>)),
     Envelope("error", JString(<<"e">>)),
     Envelope("success", JObject(<< <<(<<"c">>), JNumber>> >>))}

\* Responses to breed/.../images: a list, an error envelope, a list with an
\* element that is not a string.
SearchResponses ==
    {Envelope("success", JList(<<JString(<<"u">>), JString(<<"v">>)>>)),
     Envelope("error", JString(<<"e">>)),
     Envelope("success", JList(<<JString(<<"u">>), JNumber>>))}

(***************************************************************************)
(* Effects of the application that have been started and have not ended:   *)
(*   kind     "LoadMobileNet" | "LoadAviary" | "ReadPicture" | "Classify"  *)
(*   pic      ReadPicture: the file; Classify: the picture                 *)
(*   stage    Classify: "img" (the picture element is loading),            *)
(*            "classifying" (mobilenet.classify is pending), "searching"   *)
(*            (Aviary.search is pending)                                   *)
(*   requests Classify: image-search requests issued so far                *)
(*   aviary   Classify: the index the effect was created with              *)
(***************************************************************************)
Run(kind, pic, stage, aviary) ==
    [kind |-> kind, pic |-> pic, stage |-> stage, requests |-> 0, aviary |-> aviary]

\* executeEffects (core.ts:77-81) on the list update returned: a run method
\* starts its asynchronous work (part_000:46-52, 94-97); a toast is shown
\* and leaves nothing behind.
Start(e, s) ==
    IF e.kind = "ReadPicture.run" THEN Run("ReadPicture", e.pic, "reading", <<>>)
    ELSE Run("Classify", e.pic, "img", s.aviary.value)

Started(effs, s) ==
    LET async == SelectSeq(effs, LAMBDA e : e.kind \in {"ReadPicture.run", "Classify.run"})
    IN  [k \in 1..Len(async) |-> Start(async[k], s)]

Without(k) == SubSeq(running, 1, k - 1) \o SubSeq(running, k + 1, Len(running))

NoRun == Run("none", 0, "none", <<>>)

\* Mutation: a dispatch made by the view cancels the running classifications.
RemainingCancelled(k) ==
    IF k = 0 THEN SelectSeq(running, LAMBDA e : e.kind # "Classify") ELSE Without(k)

\* The effects still running once effect k has dispatched and ended (k = 0:
\* the view dispatched): nothing in dispatch or update touches the others.
Remaining(k) == IF k = 0 THEN running ELSE Without(k)

\* What a step did: the action dispatched ("none" if there was no
\* dispatch), whether it carried a success, the state before, the result of
\* update, whether the subscribers were notified, and the effect ended by
\* the step ("none" if none ended) with its picture, the stage it ended in,
\* the numbers of its dispatches and search requests and the response to
\* its search request.
Step(action, ok, upd, ended, dispatches, answer) ==
    [action |-> action, ok |-> ok, before |-> app, same |-> upd.same,
     effects |-> upd.effects, notified |-> ~upd.same,
     ended |-> ended.kind, pic |-> ended.pic, stage |-> ended.stage,
     dispatches |-> dispatches, requests |-> ended.requests, answer |-> answer]

\* A step without a dispatch.
Quiet(ended) == Step("none", TRUE, Update(app, <<>>, TRUE), ended, 0, <<>>)

\* dispatch(action), core.ts:41-56, with update = action.update(state)
\* (part_000:14-17): the state is stored unless update returned the stored
\* object, the effects are executed, the subscribers are notified if the
\* state was replaced.  k is the running effect that dispatches and ends
\* with it (0: the view dispatches).
Dispatch(action, ok, upd, k, answer) ==
    /\ app' = upd.state
    /\ running' = Remaining(k) \o Started(upd.effects, upd.state)
    /\ last' = Step(action, ok, upd, IF k = 0 THEN NoRun ELSE running[k],
                    IF k = 0 THEN 0 ELSE 1, answer)
    /\ joined' = (IF action = "ReadPicture" /\ ok THEN 0 ELSE joined)
                  + Len(SelectSeq(upd.effects, LAMBDA e : e.kind = "Classify.run"))

InitApp ==
    /\ IdleProgram
    /\ IdleMap
    /\ IdleClassify
    /\ IdleNet
    /\ app = InitialState
    /\ running = <<Run("LoadMobileNet", 0, "pending", <<>>),
                   Run("LoadAviary", 0, "pending", <<>>)>>
    /\ drops = 0
    /\ last = [action |-> "none", ok |-> TRUE, before |-> InitialState, same |-> TRUE,
               effects |-> <<>>, notified |-> FALSE, ended |-> "none", pic |-> 0,
               stage |-> "none", dispatches |-> 0, requests |-> 0, answer |-> <<>>]
    /\ resultOf = 0
    /\ delivered = {}
    /\ joined = 0

\* The view dispatches new DropPicture(file), part_000:344.
DropPicture(file) ==
    /\ drops < MaxDrops
    /\ drops' = drops + 1
    /\ Dispatch("DropPicture", file # Nothing, DropPictureUpdate(file, app), 0, <<>>)
    /\ resultOf' = 0
    /\ UNCHANGED <<delivered, progVars, mapVars, clsVars, netVars>>

\* mobilenetLoad() settles, part_000:163-167.
MobileNetLoaded(k, loaded) ==
    /\ running[k].kind = "LoadMobileNet"
    /\ Dispatch("LoadMobileNet", loaded,
                LoadMobileNetUpdate(IF loaded THEN Right("mobilenet")
                                    ELSE Left("load", <<>>), app), k, <<>>)
    /\ UNCHANGED <<drops, resultOf, delivered, progVars, mapVars, clsVars, netVars>>

\* Aviary.init's fetch settles, core.ts:149-156: the response text is
\* decoded and the Either dispatched as LoadAviary (part_000:198).
AviaryLoaded(k, r) ==
    /\ running[k].kind = "LoadAviary"
    /\ LET either == decodeJSON("init", r)
       IN  Dispatch("LoadAviary", either.ok, LoadAviaryUpdate(either, app), k, <<r>>)
    /\ UNCHANGED <<drops, resultOf, delivered, progVars, mapVars, clsVars, netVars>>

\* Aviary.init's fetch rejects, core.ts:155.
AviaryUnreachable(k) ==
    /\ running[k].kind = "LoadAviary"
    /\ Dispatch("LoadAviary", FALSE, LoadAviaryUpdate(Left("transport", <<>>), app), k, <<>>)
    /\ UNCHANGED <<drops, resultOf, delivered, progVars, mapVars, clsVars, netVars>>

\* The FileReader fires load with a string result, load without one, error
\* or abort, part_000:99-113.
PictureRead(k, event) ==
    /\ running[k].kind = "ReadPicture"
    /\ LET either ==
             CASE event = "load"  -> Right(running[k].pic)
               [] event = "empty" -> Left("Picture reading fails", <<>>)
               [] event = "error" -> Left("Picture reading fails", <<>>)
               [] event = "abort" -> Left("Picture reading aborted", <<>>)
       IN  Dispatch("ReadPicture", either.ok, ReadPictureUpdate(either, app), k, <<>>)
    /\ UNCHANGED <<drops, resultOf, delivered, progVars, mapVars, clsVars, netVars>>

\* The picture element fires load, part_000:52-53: mobilenet.classify is
\* called.
PictureLoads(k) ==
    /\ running[k].kind = "Classify"
    /\ running[k].stage = "img"
    /\ running' = [running EXCEPT ![k].stage = "classifying"]
    /\ last' = Quiet(NoRun)
    /\ UNCHANGED <<app, drops, resultOf, delivered, joined, progVars, mapVars, clsVars, netVars>>

\* The picture element fires error: Classify.run has registered a listener
\* for load only (part_000:52), so the effect ends here.
PictureBroken(k) ==
    /\ running[k].kind = "Classify"
    /\ running[k].stage = "img"
    /\ running' = Without(k)
    /\ last' = Quiet(running[k])
    /\ UNCHANGED <<app, drops, resultOf, delivered, joined, progVars, mapVars, clsVars, netVars>>

\* Storing the result of the Classify effect k.
ClassifyDispatch(k, either, answer) ==
    /\ Dispatch("Classify", either.ok, ClassifyUpdate(either, app), k, answer)
    /\ resultOf' = running[k].pic
    /\ delivered' = IF app.picture = Just(running[k].pic)
                    THEN delivered \cup {running[k].pic} ELSE delivered
    /\ UNCHANGED <<drops, progVars, mapVars, clsVars, netVars>>

\* mobilenet.classify resolves, part_000:54-62: aviary.classify gives
\* Nothing, the chain rejects and the catch dispatches Classify(Left); or it
\* gives a Probe and Aviary.search issues its request (core.ts:167).
Classified(k, classifications) ==
    /\ running[k].kind = "Classify"
    /\ running[k].stage = "classifying"
    /\ LET probe == classify(running[k].aviary[1], classifications)
       IN  IF probe = Nothing
           THEN ClassifyDispatch(k, Left("Could not identify dog's breed.", <<>>), <<>>)
           ELSE /\ running' = [running EXCEPT ![k].stage = "searching",
                                              ![k].requests = @ + 1]
                /\ last' = Quiet(NoRun)
                /\ UNCHANGED <<app, drops, resultOf, delivered, joined, progVars, mapVars,
                               clsVars, netVars>>

\* mobilenet.classify rejects, part_000:62.
ClassifierRejects(k) ==
    /\ running[k].kind = "Classify"
    /\ running[k].stage = "classifying"
    /\ ClassifyDispatch(k, Left("classifier", <<>>), <<>>)

\* The response to the image search arrives, core.ts:168-175 and
\* part_000:61-62: Classify(Right(pictures)) or Classify(Left(error)).
SearchAnswered(k, r) ==
    /\ running[k].kind = "Classify"
    /\ running[k].stage = "searching"
    /\ ClassifyDispatch(k, decodeJSON("search", r), <<r>>)

\* The fetch of the image search rejects, core.ts:167 and part_000:62.
SearchUnreachable(k) ==
    /\ running[k].kind = "Classify"
    /\ running[k].stage = "searching"
    /\ ClassifyDispatch(k, Left("transport", <<>>), <<>>)

NextApp ==
    \/ \E file \in {Nothing} \cup {Just(f) : f \in Files} : DropPicture(file)
    \/ \E k \in 1..Len(running) : \E loaded \in BOOLEAN : MobileNetLoaded(k, loaded)
    \/ \E k \in 1..Len(running) : \E r \in InitResponses : AviaryLoaded(k, r)
    \/ \E k \in 1..Len(running) : AviaryUnreachable(k)
    \/ \E k \in 1..Len(running) :
          \E event \in {"load", "empty", "error", "abort"} : PictureRead(k, event)
    \/ \E k \in 1..Len(running) : PictureLoads(k)
    \/ \E k \in 1..Len(running) : PictureBroken(k)
    \/ \E k \in 1..Len(running) : \E c \in ClassifierOutputs : Classified(k, c)
    \/ \E k \in 1..Len(running) : ClassifierRejects(k)
    \/ \E k \in 1..Len(running) : \E r \in SearchResponses : SearchAnswered(k, r)
    \/ \E k \in 1..Len(running) : SearchUnreachable(k)

SpecApp == InitApp /\ [][NextApp]_vars

(***************************************************************************)
(* What the claims about the application are stated with.                  *)
(***************************************************************************)
Dispatched == last.action # "none"

Kinds(effs) == {effs[k].kind : k \in 1..Len(effs)}

CountKind(effs, kind) == Cardinality({k \in 1..Len(effs) : effs[k].kind = kind})

\* The resource field a failure action concerns.
Concerned(s, action) ==
    CASE action = "LoadMobileNet" -> s.mobilenet
      [] action = "LoadAviary"    -> s.aviary
      [] OTHER                    -> s.sameBreedDogs

ClassifyRunning == \E k \in 1..Len(running) : running[k].kind = "Classify"

\* C14 as stated: every run of an asynchronous effect that has ended has
\* ended with exactly one dispatch of its result action.
C14Claim ==
    last.ended # "none" =>
        /\ last.dispatches = 1
        /\ last.action = last.ended

\* C15 as stated: every failure action schedules a notification and leaves
\* the resource field it concerns in Failure with a message, not in Loading.
C15Claim ==
    (Dispatched /\ ~last.ok) =>
        /\ Kinds(last.effects) \cap {"Toast.warning", "Toast.error"} # {}
        /\ Concerned(app, last.action).tag = "Failure"
        /\ Concerned(app, last.action).error # ""

\* C16 as stated: a transition whose resulting state has the fields of the
\* previous state returns the previous state object itself, and then no
\* subscriber is notified.
C16Claim ==
    (Dispatched /\ app = last.before) => (last.same /\ ~last.notified)

\* C17: a DropPicture transition sets sameBreedDogs to Loading and leaves
\* picture, aviary and mobilenet as they were, whatever the state; with a
\* file it schedules one ReadPicture effect and nothing else, which is then
\* running; without a file it schedules no ReadPicture effect.
C17Thm ==
    last.action = "DropPicture" =>
        /\ app.sameBreedDogs = Loading
        /\ app.picture = last.before.picture
        /\ app.aviary = last.before.aviary
        /\ app.mobilenet = last.before.mobilenet
        /\ CountKind(last.effects, "ReadPicture.run") = (IF last.ok THEN 1 ELSE 0)
        /\ CountKind(last.effects, "Classify.run") = 0
        /\ last.ok => /\ Len(last.effects) = 1
                      /\ running # <<>>
                      /\ running[Len(running)].kind = "ReadPicture"
                      /\ running[Len(running)].pic = last.effects[1].pic

\* A picture is dropped while results are shown, both models are loaded and
\* a classification is running.
C17Witness ==
    /\ last.action = "DropPicture"
    /\ last.ok
    /\ last.before.sameBreedDogs.tag = "Succeed"
    /\ last.before.picture = Just(1)
    /\ last.effects = <<ReadPictureRun(2)>>
    /\ app.mobilenet.tag = "Succeed"
    /\ app.aviary.tag = "Succeed"
    /\ ClassifyRunning

\* C18: dropping a picture ends no running effect, and the completion of a
\* Classify effect is dispatched and stored whatever picture the state holds
\* by then: the picture stays, sameBreedDogs takes the result of the
\* effect's picture.
C18Thm ==
    [][/\ drops' # drops =>
             /\ Len(running') >= Len(running)
             /\ \A k \in 1..Len(running) : running'[k] = running[k]
       /\ \A k \in 1..Len(running) :
             (/\ running[k].kind = "Classify"
              /\ running[k].stage # "img"
              /\ Len(running') < Len(running)
              /\ \A m \in 1..(k - 1) : running'[m] = running[m]
              /\ \A m \in k..Len(running') : running'[m] = running[m + 1])
                => /\ last'.action = "Classify"
                   /\ last'.pic = running[k].pic
                   /\ resultOf' = running[k].pic
                   /\ app'.picture = app.picture
                   /\ app'.sameBreedDogs.tag \in {"Succeed", "Failure"}]_vars

\* Picture 2 was dropped and read while picture 1 was being classified; the
\* result of picture 2 was stored; then the result of picture 1 arrived.
C18Witness ==
    /\ drops = 2
    /\ app.picture = Just(2)
    /\ 2 \in delivered
    /\ last.action = "Classify"
    /\ last.pic = 1
    /\ resultOf = 1
    /\ app.sameBreedDogs.tag = "Succeed"

\* C19: once aviary is a Failure it stays that Failure, no Classify effect
\* is started or running, and sameBreedDogs is not and does not become a
\* Succeed (nor a Failure of a classification).
C19Thm ==
    /\ [](app.aviary.tag = "Failure" =>
             /\ ~ClassifyRunning
             /\ app.sameBreedDogs.tag \in {"NotAsked", "Loading"}
             /\ "Classify.run" \notin Kinds(last.effects))
    /\ [][app.aviary.tag = "Failure" =>
             /\ app'.aviary = app.aviary
             /\ "Classify.run" \notin Kinds(last'.effects)
             /\ last'.action # "Classify"]_vars

\* The index failed to load; later the model loaded and a picture was
\* dropped and read: nothing is classified.
C19Witness ==
    /\ app.aviary.tag = "Failure"
    /\ app.mobilenet.tag = "Succeed"
    /\ app.picture = Just(1)
    /\ last.action = "ReadPicture"
    /\ last.ok
    /\ app.sameBreedDogs = Loading
    /\ running = <<>>

\* C20: a Classify effect that ends after its picture has loaded ends with
\* one dispatch.  If it ends while classifying (the classifier rejected or
\* no label resolved) it has issued no search request and dispatches a
\* Left; if it ends while searching it has issued one request and
\* dispatches a Right only for a success envelope around a list of strings,
\* a Left in every other case.
C20Thm ==
    (last.ended = "Classify" /\ last.stage # "img") =>
        /\ last.dispatches = 1
        /\ last.action = "Classify"
        /\ last.stage = "classifying" =>
              /\ last.requests = 0
              /\ ~last.ok
              /\ app.sameBreedDogs.tag = "Failure"
        /\ last.stage = "searching" =>
              /\ last.requests = 1
              /\ last.ok <=> (last.answer # <<>> /\ SuccessEnvelope("search", last.answer[1]))
              /\ ~last.ok => app.sameBreedDogs.tag = "Failure"
              /\ last.ok => app.sameBreedDogs.tag = "Succeed"

\* The search answers with a list that has an element that is not a string.
C20Witness ==
    /\ last.ended = "Classify"
    /\ last.stage = "searching"
    /\ last.answer = <<Envelope("success", JList(<<JString(<<"u">>), JNumber>>))>>
    /\ ~last.ok
    /\ last.dispatches = 1
    /\ app.sameBreedDogs.tag = "Failure"

\* What C21 says of every stage but the last: sameBreedDogs is NotAsked only
\* as long as nothing was dropped, no action but Classify makes it a Succeed
\* or a Failure, and a Classify effect is started only for the picture the
\* state holds, which a successful read has put there.
C21Forward ==
    /\ app.sameBreedDogs.tag = "NotAsked" =>
          drops = 0 /\ last.before.sameBreedDogs.tag = "NotAsked"
    /\ (Dispatched /\ last.action # "Classify") =>
          (app.sameBreedDogs.tag \in {"Succeed", "Failure"} =>
              app.sameBreedDogs = last.before.sameBreedDogs)
    /\ last.action = "Classify" => app.sameBreedDogs.tag \in {"Succeed", "Failure"}
    /\ \A k \in 1..Len(last.effects) :
          last.effects[k].kind = "Classify.run" =>
              /\ app.picture = Just(last.effects[k].pic)
              /\ last.action \in {"ReadPicture", "LoadMobileNet", "LoadAviary"}
              /\ last.action = "ReadPicture" => last.ok /\ last.pic = last.effects[k].pic

\* C21 as stated: the pipeline only moves forward, and every change of
\* sameBreedDogs to Succeed or Failure happens from Loading.
C21Claim ==
    /\ C21Forward
    /\ last.action = "Classify" => last.before.sameBreedDogs.tag = "Loading"

\* C21 as the code has it: the pipeline only moves forward, and a Classify
\* action stores its Succeed or Failure over Loading or over the Succeed or
\* Failure an earlier Classify action has stored, never over NotAsked.
C21Thm ==
    /\ C21Forward
    /\ last.action = "Classify" =>
          last.before.sameBreedDogs.tag \in {"Loading", "Succeed", "Failure"}

\* The result of one classification is stored over the result of another.
C21Witness ==
    /\ last.action = "Classify"
    /\ last.before.sameBreedDogs.tag = "Succeed"
    /\ app.sameBreedDogs.tag = "Failure"
    /\ app.picture = Just(2)
    /\ last.pic = 1

(***************************************************************************)
(* More claims about ClientProgram.                                        *)
(***************************************************************************)
\* The step is a call of dispatch: a dispatch frame is pushed.
IsDispatchStep ==
    /\ Len(stack') = Len(stack) + 1
    /\ stack'[Len(stack')].kind = "dispatch"

\* C22: the program starts with init's state stored (reference 0) and runs
\* the initial effects once each, in list order, before the constructor
\* returns; a dispatch made by an initial effect is a dispatch of this
\* program; afterwards the stored state changes only in a step that is a
\* call of dispatch, to what update returned, and a call of subscribe or of
\* a token, and getState, leave it as it is.
C22Thm ==
    /\ [](/\ calls = 0 => getState = 0
          /\ \A k \in 1..Len(stack) :
                stack[k].kind = "ctor" =>
                   /\ k = 1
                   /\ stack[k].pc = "effects"
                   /\ stack[k].i <= Len(stack[k].effects) + 1
                   /\ stack[k].trace = EffectEvents(stack[k].effects, stack[k].i - 1)
                   /\ subscribers = <<>>
          /\ getState = state)
    /\ [][/\ IsDispatchStep => state' = stack'[Len(stack')].next
          /\ state' # state => IsDispatchStep /\ calls' = calls + 1
          /\ (tokens' # tokens \/ removed' # removed \/ subscribers' # subscribers)
                => state' = state]_vars

\* The constructor is about to return: both initial effects were run, and
\* the first of them dispatched an action that changed the state.
C22Witness ==
    /\ Len(stack) = 1
    /\ Top.kind = "ctor"
    /\ Top.effects = <<1, 2>>
    /\ Top.i = 3
    /\ Top.trace = <<Ev("effect", 1), Ev("effect", 2)>>
    /\ calls = 1
    /\ state = 1

(***************************************************************************)
(* More claims about the application.                                      *)
(***************************************************************************)
\* The picture, the model and the index are there.
Available(s) ==
    s.picture # Nothing /\ s.aviary.tag = "Succeed" /\ s.mobilenet.tag = "Succeed"

\* C23: one Classify effect has been started for the picture read last
\* exactly when picture, mobilenet and aviary are all there, and none
\* otherwise; a transition starts a Classify effect, one and for the picture
\* in the state, exactly when it is the one that makes the three complete:
\* the successful read of a picture with both loaded, or the load that
\* arrives last.
C23Thm ==
    /\ joined = (IF Available(app) THEN 1 ELSE 0)
    /\ Dispatched =>
          /\ CountKind(last.effects, "Classify.run") =
                (IF /\ Available(app)
                    /\ \/ ~Available(last.before)
                       \/ last.action = "ReadPicture" /\ last.ok
                 THEN 1 ELSE 0)
          /\ \A k \in 1..Len(last.effects) :
                last.effects[k].kind = "Classify.run" =>
                    app.picture = Just(last.effects[k].pic)

\* The picture arrived first, the index second, the model last: the
\* LoadMobileNet transition starts the classification.
C23Witness ==
    /\ last.action = "LoadMobileNet"
    /\ last.ok
    /\ last.before.picture = Just(1)
    /\ last.before.aviary.tag = "Succeed"
    /\ last.effects = <<ClassifyRun(1)>>
    /\ joined = 1
    /\ running # <<>>
    /\ running[Len(running)].kind = "Classify"
    /\ running[Len(running)].pic = 1

(***************************************************************************)
(* Notifications and the state they observe.                               *)
(***************************************************************************)
\* The step invokes a subscriber: core.ts:54, called by the dispatch on top
\* of the stack.
IsNotifyStep ==
    /\ Len(stack') = Len(stack) + 1
    /\ stack'[Len(stack')].kind = "listener"

\* With a fixed subscriber set every registration has been invoked once for
\* each state-changing transition when no call is running, and never more
\* often than there were such transitions.
C24Counts ==
    tally.clean =>
        \A k \in 1..Len(subscribers) :
            LET reg == subscribers[k].reg
            IN  /\ tally.invoked[reg] <= tally.changes
                /\ stack = <<>> => tally.invoked[reg] = tally.changes

\* C24 as stated: a subscriber invoked for a transition finds the state that
\* transition stored in getState(), also when an effect of the transition
\* dispatched synchronously; with a fixed subscriber set the invocations of
\* each subscriber are as many as the state-changing transitions.
C24Claim ==
    /\ []C24Counts
    /\ [][IsNotifyStep => getState = Top.next]_vars

\* C24: a subscriber invoked for a transition finds in getState() the result
\* of the most recently accepted transition; that is the state its own
\* transition stored when no state-changing dispatch was made since that
\* transition stored it.  With a fixed subscriber set the invocations of
\* each subscriber are as many as the state-changing transitions.
C24Thm ==
    /\ []C24Counts
    /\ [][IsNotifyStep =>
            /\ getState = accepted
            /\ ~Top.nested => getState = Top.next]_vars

\* An effect of a state-changing transition dispatched a second one; the
\* only subscriber was invoked for the second and is now invoked for the
\* first, with the state the second one stored.
C24Witness ==
    /\ Len(stack) = 2
    /\ Top.kind = "listener"
    /\ stack[1].kind = "dispatch"
    /\ stack[1].nested
    /\ stack[1].next = 1
    /\ getState = 0
    /\ Len(subscribers) = 1
    /\ tally.clean
    /\ tally.changes = 2
    /\ tally.invoked[Top.who] = 2

(***************************************************************************)
(* Tokens called more than once.                                           *)
(***************************************************************************)
\* The tokens called so far.
TokensCalled == {removed[k].token : k \in 1..Len(removed)}

\* The calls that removed a registration.
Removals == {k \in 1..Len(removed) : removed[k].reg # 0}

\* C25: a token is idempotent: a second call of the same token removes
\* nothing, also when its listener has another registration; the
\* registrations removed are never more than the distinct tokens called.
C25Claim ==
    /\ \A k \in 1..Len(removed) :
          (\E m \in 1..(k - 1) : removed[m].token = removed[k].token) =>
              /\ removed[k].reg = 0
              /\ removed[k].after = removed[k].before
    /\ Cardinality(Removals) <= Cardinality(TokensCalled)

\* The same token called twice with its listener registered twice: the
\* second call removes the other registration.
C25Repeat ==
    /\ tokens = <<"f", "f">>
    /\ Len(removed) = 2
    /\ removed[1].token = 1 /\ removed[1].reg = 1
    /\ removed[2].token = 1 /\ removed[2].reg = 2
    /\ subscribers = <<>>

(***************************************************************************)
(* The application with its effects completing: whatever has been started  *)
(* and has not ended goes on, to a result or to an error.  Dropping a      *)
(* picture is up to the user and is not required to happen.                *)
(***************************************************************************)
Completes ==
    \E k \in 1..Len(running) :
        \/ \E loaded \in BOOLEAN : MobileNetLoaded(k, loaded)
        \/ \E r \in InitResponses : AviaryLoaded(k, r)
        \/ AviaryUnreachable(k)
        \/ \E event \in {"load", "empty", "error", "abort"} : PictureRead(k, event)
        \/ PictureLoads(k)
        \/ PictureBroken(k)
        \/ \E c \in ClassifierOutputs : Classified(k, c)
        \/ ClassifierRejects(k)
        \/ \E r \in SearchResponses : SearchAnswered(k, r)
        \/ SearchUnreachable(k)

SpecAppLive == InitApp /\ [][NextApp]_vars /\ WF_vars(Completes)

\* C26: results are eventually delivered: when every started effect
\* completes, with a result or an error, a sameBreedDogs that is Loading
\* becomes Succeed or Failure unless a further picture is dropped.
C26Claim ==
    \A n \in 0..MaxDrops :
        (app.sameBreedDogs.tag = "Loading" /\ drops = n)
            ~> (app.sameBreedDogs.tag \in {"Succeed", "Failure"} \/ drops > n)

\* Nothing is running any more and sameBreedDogs is Loading, with the
\* user still free to drop a picture.
C26Stuck ==
    /\ running = <<>>
    /\ app.sameBreedDogs.tag = "Loading"
    /\ drops < MaxDrops

\* The same with everything loaded and a picture read: the picture did not
\* load into the image element.
C26StuckBroken ==
    /\ C26Stuck
    /\ Available(app)
    /\ last.ended = "Classify"
    /\ last.dispatches = 0

====
